---- MODULE Spec2Model ----
(***************************************************************************)
(* A model of zfs/replica.py: one replication session of main(), the       *)
(* helper functions it calls, and the zfs commands they run; and, further  *)
(* down, of the loops of perforce/p4clean.py and zfs/fixperms.py, and of   *)
(* the backup of zfs/glacier.py.                                           *)
(*                                                                         *)
(* Text is modelled as sequences of one-character strings, so that the     *)
(* formatting of a tag, the regular expression of snapshots(), the splits  *)
(* and the string sort are computed the way the script computes them.      *)
(***************************************************************************)
EXTENDS Integers, Sequences, FiniteSets, TLC

(***************************************************************************)
(* Text                                                                    *)
(***************************************************************************)
Digits == <<"0", "1", "2", "3", "4", "5", "6", "7", "8", "9">>

Lower == <<"a", "b", "c", "d", "e", "f", "g", "h", "i", "j", "k", "l", "m",
           "n", "o", "p", "q", "r", "s", "t", "u", "v", "w", "x", "y", "z">>

IndexOf(s, c) == CHOOSE i \in 1..Len(s) : s[i] = c

IsDigit(c) == \E i \in 1..Len(Digits) : Digits[i] = c

\* The code point of a character: Python compares and sorts str by code point.
Ord(c) ==
    CASE c = "\t" -> 9
      [] c = "\n" -> 10
      [] c = "'" -> 39
      [] c = "-" -> 45
      [] c = "/" -> 47
      [] IsDigit(c) -> 47 + IndexOf(Digits, c)
      [] c = ":" -> 58
      [] c = "@" -> 64
      [] c = "\\" -> 92
      [] OTHER -> 96 + IndexOf(Lower, c)

\* a < b for two str values: the first differing character decides, and a
\* proper prefix is smaller.
StrLess(a, b) ==
    LET m == IF Len(a) < Len(b) THEN Len(a) ELSE Len(b)
        diff == {i \in 1..m : a[i] # b[i]}
    IN  IF diff = {} THEN Len(a) < Len(b)
        ELSE LET i == CHOOSE x \in diff : \A y \in diff : x <= y
             IN  Ord(a[i]) < Ord(b[i])

\* list.sort() on a list of str: ascending, equal entries kept.
RECURSIVE SortInsert(_, _)
SortInsert(x, s) ==
    IF s = <<>> THEN <<x>>
    ELSE IF StrLess(x, Head(s)) THEN <<x>> \o s
    ELSE <<Head(s)>> \o SortInsert(x, Tail(s))

RECURSIVE ListSort(_)
ListSort(s) ==
    IF s = <<>> THEN <<>>
    ELSE SortInsert(s[Len(s)], ListSort(SubSeq(s, 1, Len(s) - 1)))

\* str.split(sep) for a one-character separator: the pieces between the
\* separators, empty pieces included.
Split(text, sep) ==
    LET seps == {i \in 1..Len(text) : text[i] = sep}
        n == Cardinality(seps) + 1
        pos(k) == IF k = 0 THEN 0
                  ELSE IF k = n THEN Len(text) + 1
                  ELSE CHOOSE i \in seps : Cardinality({j \in seps : j < i}) = k - 1
    IN  [k \in 1..n |-> SubSeq(text, pos(k - 1) + 1, pos(k) - 1)]

\* str.splitlines(): the pieces between line feeds, without the empty piece
\* after a final line feed.
SplitLines(text) ==
    LET pieces == Split(text, "\n")
    IN  IF pieces[Len(pieces)] = <<>> THEN SubSeq(pieces, 1, Len(pieces) - 1)
        ELSE pieces

\* x in s, for a list s
InList(x, s) == \E i \in 1..Len(s) : s[i] = x

(***************************************************************************)
(* Names: filesystems, the clock, tags                                     *)
(***************************************************************************)
\* args[0] and args[1] of the command line, and a filesystem below args[0].
SRC == <<"a">>

DST == <<"b">>

CHILD == <<"a", "/", "c">>

FS == {SRC, DST}

\* A UTC time as datetime holds it, to the minute.
DateTime(y, mo, d, h, mi) ==
    [year |-> y, month |-> mo, day |-> d, hour |-> h, minute |-> mi]

\* A slip in the format: the number as it is, with no zero in front.
Pad2Plain(n) ==
    IF n < 10 THEN <<Digits[n + 1]>>
    ELSE <<Digits[(n \div 10) + 1], Digits[(n % 10) + 1]>>

\* %m, %d, %H, %M: two digits, zero padded.
Pad2(n) == <<Digits[(n \div 10) + 1], Digits[(n % 10) + 1]>>

\* %Y: the year in decimal.
RECURSIVE Decimal(_)
Decimal(n) ==
    IF n < 10 THEN <<Digits[n + 1]>>
    ELSE Decimal(n \div 10) \o <<Digits[(n % 10) + 1]>>

\* "{}".format(n) for an int n
IntStr(n) == IF n < 0 THEN <<"-">> \o Decimal(-n) ELSE Decimal(n)

\* sub in text, for two str values
Contains(text, sub) ==
    \E i \in 1..(Len(text) - Len(sub) + 1) :
        SubSeq(text, i, i + Len(sub) - 1) = sub

\* today.strftime("%Y-%m-%d-%H:%M")
strftime(t) ==
    Decimal(t.year) \o <<"-">> \o Pad2(t.month) \o <<"-">> \o Pad2(t.day)
        \o <<"-">> \o Pad2(t.hour) \o <<":">> \o Pad2(t.minute)

\* A slip in the name: a dash where the pattern of snapshots() has a colon.
ReplicaNameDash(tag) == <<"r", "e", "p", "l", "i", "c", "a", "-">> \o tag

\* "replica:{}".format(tag), the part of the snapshot name after the @
ReplicaName(tag) == <<"r", "e", "p", "l", "i", "c", "a", ":">> \o tag

\* "{}@{}".format(fs, snap)
FullName(fs, snap) == fs \o <<"@">> \o snap

(***************************************************************************)
(* State                                                                   *)
(***************************************************************************)
VARIABLES
    pc,        \* the place main() has reached; "exit" once the process ended
    status,    \* the exit status of the process, read when pc = "exit"
    clock,     \* the UTC time datetime.utcnow() returns
    prop,      \* filesystem -> its com.sun:auto-snapshot value; <<>> is unset
    pool,      \* the snapshots that exist: records [fs, name]
    saved,     \* assrc and asdst: what disableauto() returned, per filesystem
    snaps,     \* main's snaps
    dstsnaps,  \* main's dstsnaps
    oldsnaps,  \* what is left of the oldsnaps the for loop walks
    send,      \* the Popen object of zfs send and the child behind it
    recv,      \* the Popen object of zfs recv and the child behind it
    pipe,      \* TRUE while the parent holds send.stdout open
    log,       \* the commands issued so far, in order
    prop0,     \* history: prop when the session started
    held,      \* history: filesystem -> its snapshots when its pruning began
    failures,  \* history: the places in log of the commands that failed
    raised,    \* the OSError that reached the except clause of main, if any
    outcome,   \* history: how each command of log ended, and its stderr
    pruned,    \* history: filesystem -> its latest prunings, see Pruning
    session,   \* the number of the run of the script, counted from 1
    p4,        \* perforce/p4clean.py: the run of delete_changes()
    fx,        \* zfs/fixperms.py: the walk of main()
    gl         \* zfs/glacier.py: the runs of main() for one section and label

\* The variables no step of a session of replica.py changes.
apart == <<session, p4, fx, gl>>

\* The variables of replica.py.
replica == <<pc, status, clock, prop, pool, saved, snaps, dstsnaps, oldsnaps,
             send, recv, pipe, log, prop0, held, failures, raised, outcome,
             pruned, session>>

vars == <<replica, p4, fx, gl>>

(***************************************************************************)
(* The zfs commands                                                        *)
(***************************************************************************)
\* How one external command can end: it could not be launched (Popen or call
\* raises OSError), or it ran and returned rc: 0, an error status, or the
\* negative number of the signal that killed it.
RetCodes == {0, 1, -9}

Results ==
    {[launched |-> FALSE, rc |-> 0]}
        \cup {[launched |-> TRUE, rc |-> c] : c \in RetCodes}

Succeeded(r) == r.launched /\ r.rc = 0

\* The exit status the parent of the script sees for sys.exit(code).
ExitStatus(code) == code % 256

Unset == <<>>

False == <<"f", "a", "l", "s", "e">>

True == <<"t", "r", "u", "e">>

\* zfs get -Ho value com.sun:auto-snapshot fs, as bytes: the value, or a
\* dash when the property is not set, and a line feed.
ZfsGetOutput(fs) ==
    (IF prop[fs] = Unset THEN <<"-">> ELSE prop[fs]) \o <<"\n">>

IsPrefix(p, s) == Len(p) <= Len(s) /\ SubSeq(s, 1, Len(p)) = p

\* -r: the snapshots of fs and of every filesystem below it.
Listed(fs) ==
    {s \in pool : s.fs = fs \/ IsPrefix(fs \o <<"/">>, s.fs)}

RECURSIVE SeqOf(_)
SeqOf(S) ==
    IF S = {} THEN <<>>
    ELSE LET x == CHOOSE y \in S : TRUE IN <<x>> \o SeqOf(S \ {x})

RECURSIVE Concat(_)
Concat(ss) == IF ss = <<>> THEN <<>> ELSE Head(ss) \o Concat(Tail(ss))

\* zfs list -t snapshot -Hr fs: a line per snapshot, the name and then the
\* used, available, referenced and mountpoint columns, separated by tabs.
ZfsListOutput(fs) ==
    LET names == ListSort(SeqOf({FullName(s.fs, s.name) : s \in Listed(fs)}))
    IN  Concat([i \in 1..Len(names) |->
                   names[i] \o <<"\t", "0", "\t", "-", "\t", "0", "\t", "-", "\n">>])

(***************************************************************************)
(* snapshots(fs)                                                           *)
(***************************************************************************)
\* re.compile("@replica:\d{4}-\d{2}-\d{2}-\d{2}:\d{2}"); "d" stands for \d
prog ==
    <<"@", "r", "e", "p", "l", "i", "c", "a", ":", "d", "d", "d", "d", "-",
      "d", "d", "-", "d", "d", "-", "d", "d", ":", "d", "d">>

MatchAt(line, i) ==
    /\ i + Len(prog) - 1 <= Len(line)
    /\ \A k \in 1..Len(prog) :
          IF prog[k] = "d" THEN IsDigit(line[i + k - 1])
          ELSE line[i + k - 1] = prog[k]

\* prog.search(line): the pattern matches at some position of the line
Search(line) == \E i \in 1..Len(line) : MatchAt(line, i)

\* What snapshots(fs) returns for the output of zfs list.
ParseSnapshots(output) ==
    LET lines == SplitLines(output)
        matched == SelectSeq(lines, Search)
        names == [i \in 1..Len(matched) |-> Split(matched[i], "\t")[1]]
        tags == [i \in 1..Len(names) |-> Split(names[i], "@")[2]]
    IN  ListSort(tags)

snapshots(fs) == ParseSnapshots(ZfsListOutput(fs))

(***************************************************************************)
(* Initial states                                                          *)
(***************************************************************************)
\* How many sessions' worth of earlier snapshots a filesystem may hold.
MaxOld == 2

\* The minutes in which earlier sessions ran, and the minute of this one.
OldTime(i) == DateTime(2019, 12, 31, 23, 50 + i)

Now == DateTime(2020, 1, 1, 0, 0)

Snap(fs, name) == [fs |-> fs, name |-> name]

OldSnap(fs, i) == Snap(fs, ReplicaName(strftime(OldTime(i))))

\* Snapshots the script did not make: one taken by hand whose name goes on
\* after the timestamp, one of a filesystem below the source (zfs snapshot
\* -r), and one of the auto-snapshot service.
ExtraSnaps ==
    { Snap(SRC, ReplicaName(strftime(OldTime(1))) \o <<"-", "x">>),
      Snap(CHILD, ReplicaName(strftime(OldTime(MaxOld)))),
      Snap(SRC, <<"d", "a", "i", "l", "y">>) }

\* History of the prunings of one filesystem: how many were completed in a
\* row with no snapshot created in between (2 stands for two or more), the
\* number of destroy commands of the latest one, and the snapshots of the
\* filesystem after the one before and after the latest.
NotPruned == [times |-> 0, destroys |-> 0, before |-> {}, kept |-> {}]

NoProc == [state |-> "none", exit |-> 0, returncode |-> <<>>]

\* p4clean.py, fixperms.py and glacier.py are not running.
NoRun == [pc |-> "none"]

OthersIdle == p4 = NoRun /\ fx = NoRun /\ gl = NoRun

Init ==
    /\ pc = "disable_src_get"
    /\ status = 0
    /\ clock = Now
    /\ prop \in [FS -> {Unset, True}]
    /\ \E so \in SUBSET (1..MaxOld), do \in SUBSET (1..MaxOld),
          ex \in {{}} \cup {{e} : e \in ExtraSnaps} :
          pool = {OldSnap(SRC, i) : i \in so} \cup {OldSnap(DST, i) : i \in do}
                     \cup ex
    /\ saved = [f \in FS |-> <<>>]
    /\ snaps = <<>>
    /\ dstsnaps = <<>>
    /\ oldsnaps = <<>>
    /\ send = NoProc
    /\ recv = NoProc
    /\ pipe = FALSE
    /\ log = <<>>
    /\ prop0 = prop
    /\ held = [f \in FS |-> {}]
    /\ failures = {}
    /\ raised = <<>>
    /\ outcome = <<>>
    /\ pruned = [f \in FS |-> NotPruned]
    /\ session = 1
    /\ OthersIdle

(***************************************************************************)
(* Steps shared by the actions                                             *)
(***************************************************************************)
\* sys.exit(code), and the except clause of main, which is sys.exit(1)
Exit(code) == pc' = "exit" /\ status' = ExitStatus(code)

Cmd(cmd, fs, fn, args) == [cmd |-> cmd, fs |-> fs, fn |-> fn, args |-> args]

\* The name of a zfs subcommand as text.
CmdText(cmd) ==
    CASE cmd = "get" -> <<"g", "e", "t">>
      [] cmd = "list" -> <<"l", "i", "s", "t">>
      [] cmd = "send" -> <<"s", "e", "n", "d">>
      [] cmd = "recv" -> <<"r", "e", "c", "v">>
      [] cmd = "destroy" -> <<"d", "e", "s", "t", "r", "o", "y">>

\* What a zfs command that ends with an error status writes on its standard
\* error: a line that names the dataset. A command that was killed, or was
\* never started, writes nothing.
Stderr(c, r) ==
    IF r.launched /\ r.rc > 0
    THEN <<"c", "a", "n", "n", "o", "t", " ", "o", "p", "e", "n", " ", "'">> \o c.fs
            \o <<"'", ":", " ", "d", "a", "t", "a", "s", "e", "t", " ", "d", "o", "e", "s", " ", "n", "o", "t", " ", "e", "x", "i", "s", "t", "\n">>
    ELSE <<>>

Outcome(c, r) == [launched |-> r.launched, rc |-> r.rc, stderr |-> Stderr(c, r)]

\* The command is issued and ends as r says.
Issue(c, r) ==
    /\ log' = Append(log, c)
    /\ outcome' = Append(outcome, Outcome(c, r))
    /\ failures' = IF Succeeded(r) THEN failures
                   ELSE failures \cup {Len(log) + 1}

EIO == 5

ENOENT == 2

\* The OSError of Popen for a program that cannot be started.
LaunchError ==
    [errno |-> ENOENT,
     strerror |-> <<"N", "o", " ", "s", "u", "c", "h", " ", "f", "i", "l", "e", " ", "o", "r", " ", "d", "i", "r", "e", "c", "t", "o", "r", "y", ":", " ", "'", "z", "f", "s", "'">>]

\* A slip in the message: the name of the command, and no return code.
CommandErrorNoCode(cmd, rc) ==
    [errno |-> EIO,
     strerror |-> <<"z", "f", "s", " ">> \o CmdText(cmd) \o <<" ", "r", "e", "t", "u", "r", "n", "e", "d">>]

\* OSError(errno.EIO, "zfs <cmd> returned {}".format(zfs.returncode))
CommandError(cmd, rc) ==
    [errno |-> EIO,
     strerror |-> <<"z", "f", "s", " ">> \o CmdText(cmd) \o <<" ", "r", "e", "t", "u", "r", "n", "e", "d", " ">> \o IntStr(rc)]

\* What Popen, communicate and the test of returncode raise for a command
\* that did not succeed; the standard error that communicate() read is
\* dropped.
Raised(cmd, r) == IF r.launched THEN CommandError(cmd, r.rc) ELSE LaunchError

Pruning(fs, destroys, P) ==
    [times |-> IF pruned[fs].times = 0 THEN 1 ELSE 2,
     destroys |-> destroys,
     before |-> pruned[fs].kept,
     kept |-> {s \in P : s.fs = fs}]

\* A slip: a command that returned an error status is run again.
AfterCallAgain(r, next) ==
    IF ~r.launched THEN Exit(1)
    ELSE IF r.rc < 0 THEN Exit(r.rc)
    ELSE IF r.rc > 0 THEN pc' = pc /\ status' = status
    ELSE pc' = next /\ status' = status

\* subprocess.call in a try block: a negative return code is sys.exit(retcode),
\* OSError is sys.exit(1), anything else goes on to next.
AfterCall(r, next) ==
    IF ~r.launched THEN Exit(1)
    ELSE IF r.rc < 0 THEN Exit(r.rc)
    ELSE pc' = next /\ status' = status

\* Popen and communicate, then "if zfs.returncode != 0: raise OSError": both
\* the OSError of a failed launch and the raised one reach main's handler.
AfterPopen(r, next) ==
    IF ~r.launched \/ r.rc # 0 THEN Exit(1)
    ELSE pc' = next /\ status' = status

\* str(b) for bytes b, which is what "{}".format(b) inserts
BytesEscape(c) ==
    CASE c = "\n" -> <<"\\", "n">>
      [] c = "\t" -> <<"\\", "t">>
      [] c = "\\" -> <<"\\", "\\">>
      [] c = "'" -> <<"\\", "'">>
      [] OTHER -> <<c>>

BytesStr(b) ==
    <<"b", "'">> \o Concat([i \in 1..Len(b) |-> BytesEscape(b[i])]) \o <<"'">>

(***************************************************************************)
(* disableauto(fs), restoreauto(fs, saved), mksnapshot(fs)                 *)
(***************************************************************************)
\* zfs get, and the return value kept for the end of disableauto
DisableGet(fs, here, next) ==
    /\ pc = here
    /\ \E r \in Results :
          /\ Issue(Cmd("get", fs, "disableauto", <<>>), r)
          /\ AfterPopen(r, next)
          /\ saved' = IF Succeeded(r) THEN [saved EXCEPT ![fs] = ZfsGetOutput(fs)]
                      ELSE saved
          /\ raised' = IF Succeeded(r) THEN raised ELSE <<Raised("get", r)>>
    /\ UNCHANGED <<clock, prop, pool, snaps, dstsnaps, oldsnaps, send, recv,
                   pipe, prop0, held, pruned>>
    /\ UNCHANGED apart

\* zfs set com.sun:auto-snapshot=false
DisableSet(fs, here, next) ==
    /\ pc = here
    /\ \E r \in Results :
          /\ Issue(Cmd("set", fs, "disableauto", <<False>>), r)
          /\ AfterCall(r, next)
          /\ prop' = IF Succeeded(r) THEN [prop EXCEPT ![fs] = False] ELSE prop
    /\ UNCHANGED <<clock, pool, saved, snaps, dstsnaps, oldsnaps, send, recv,
                   pipe, prop0, held, raised, pruned>>
    /\ UNCHANGED apart

\* The value restoreauto() puts after the = sign.
RestoreValue(fs) == BytesStr(saved[fs])

\* zfs set com.sun:auto-snapshot=<saved>
RestoreAuto(fs, here, next) ==
    /\ pc = here
    /\ \E r \in Results :
          /\ Issue(Cmd("set", fs, "restoreauto", <<RestoreValue(fs)>>), r)
          /\ AfterCall(r, next)
          /\ prop' = IF Succeeded(r) THEN [prop EXCEPT ![fs] = RestoreValue(fs)]
                     ELSE prop
    /\ UNCHANGED <<clock, pool, saved, snaps, dstsnaps, oldsnaps, send, recv,
                   pipe, prop0, held, raised, pruned>>
    /\ UNCHANGED apart

\* The snapshot mksnapshot(fs) makes.
NewSnap(fs) == Snap(fs, ReplicaName(strftime(clock)))

\* zfs snapshot fs@replica:<tag>; it cannot succeed when the name is taken.
MkSnapshot(fs, here, next) ==
    /\ pc = here
    /\ \E r \in Results :
          /\ Succeeded(r) => NewSnap(fs) \notin pool
          /\ Issue(Cmd("snapshot", fs, "mksnapshot", <<NewSnap(fs).name>>), r)
          /\ AfterCall(r, next)
          /\ pool' = IF Succeeded(r) THEN pool \cup {NewSnap(fs)} ELSE pool
          /\ pruned' = IF Succeeded(r) THEN [pruned EXCEPT ![fs] = NotPruned]
                       ELSE pruned
    /\ UNCHANGED <<clock, prop, saved, snaps, dstsnaps, oldsnaps, send, recv,
                   pipe, prop0, held, raised>>
    /\ UNCHANGED apart

(***************************************************************************)
(* main(): the inventories and the choice of the transfer                  *)
(***************************************************************************)
\* A slip in the slice: snaps[:2], the two oldest, for snaps[:-2].
FirstTwo(s) == SubSeq(s, 1, IF Len(s) < 2 THEN Len(s) ELSE 2)

\* snaps[:-2] and snaps[-2:]
AllButLastTwo(s) == SubSeq(s, 1, Len(s) - 2)

LastTwo(s) == IF Len(s) <= 2 THEN s ELSE SubSeq(s, Len(s) - 1, Len(s))

\* A slip in the test: the oldest destination tag is looked up, not the latest.
OutOfSyncOldest(src_snaps, dst_snaps) ==
    /\ Len(dst_snaps) > 0
    /\ ~InList(dst_snaps[1], src_snaps)

\* len(dstsnaps) > 0 and dstsnaps[-1] not in snaps
OutOfSync(src_snaps, dst_snaps) ==
    /\ Len(dst_snaps) > 0
    /\ ~InList(dst_snaps[Len(dst_snaps)], src_snaps)

\* A slip in the choice: an empty destination is sent the oldest source tag.
TransferCallOldest(src_snaps, dst_snaps) ==
    IF Len(src_snaps) = 1
    THEN [fn |-> "sendsnapshot", tags |-> <<src_snaps[1]>>]
    ELSE IF Len(dst_snaps) = 0
    THEN [fn |-> "sendsnapshot", tags |-> <<src_snaps[1]>>]
    ELSE [fn |-> "sendincremental", tags |-> LastTwo(src_snaps)]

\* The if / elif / else that calls sendsnapshot() or sendincremental().
TransferCall(src_snaps, dst_snaps) ==
    IF Len(src_snaps) = 1
    THEN [fn |-> "sendsnapshot", tags |-> <<src_snaps[1]>>]
    ELSE IF Len(dst_snaps) = 0
    THEN [fn |-> "sendsnapshot", tags |-> <<src_snaps[Len(src_snaps)]>>]
    ELSE [fn |-> "sendincremental", tags |-> LastTwo(src_snaps)]

\* snaps = snapshots(src), and the test for an empty list
ListSrc ==
    /\ pc = "list_src"
    /\ \E r \in Results :
          /\ Issue(Cmd("list", SRC, "snapshots", <<>>), r)
          /\ IF Succeeded(r)
             THEN /\ snaps' = snapshots(SRC)
                  /\ IF Len(snaps') = 0 THEN Exit(1)
                     ELSE pc' = "list_dst" /\ status' = status
             ELSE /\ snaps' = snaps
                  /\ Exit(1)
          /\ raised' = IF Succeeded(r) THEN raised ELSE <<Raised("list", r)>>
    /\ UNCHANGED <<clock, prop, pool, saved, dstsnaps, oldsnaps, send, recv,
                   pipe, prop0, held, pruned>>
    /\ UNCHANGED apart

\* dstsnaps = snapshots(dst), and the test for a destination out of sync
ListDst ==
    /\ pc = "list_dst"
    /\ \E r \in Results :
          /\ Issue(Cmd("list", DST, "snapshots", <<>>), r)
          /\ IF Succeeded(r)
             THEN /\ dstsnaps' = snapshots(DST)
                  /\ IF OutOfSync(snaps, dstsnaps') THEN Exit(1)
                     ELSE pc' = "send_popen" /\ status' = status
             ELSE /\ dstsnaps' = dstsnaps
                  /\ Exit(1)
          /\ raised' = IF Succeeded(r) THEN raised ELSE <<Raised("list", r)>>
    /\ UNCHANGED <<clock, prop, pool, saved, snaps, oldsnaps, send, recv,
                   pipe, prop0, held, pruned>>
    /\ UNCHANGED apart

(***************************************************************************)
(* sendsnapshot() and sendincremental(): the two functions differ only in  *)
(* the arguments of zfs send, which TransferCall carries.                  *)
(***************************************************************************)
Transfer == TransferCall(snaps, dstsnaps)

\* send = subprocess.Popen(["zfs", "send", ...], stdout=PIPE)
SendPopen ==
    /\ pc = "send_popen"
    /\ \E launched \in BOOLEAN :
          LET c == Cmd("send", SRC, Transfer.fn, Transfer.tags) IN
          /\ log' = Append(log, c)
          /\ outcome' = Append(outcome, [launched |-> launched, rc |-> 0,
                                         stderr |-> <<>>])
          /\ raised' = IF launched THEN raised ELSE <<LaunchError>>
          /\ IF launched
             THEN /\ send' = [send EXCEPT !.state = "running"]
                  /\ pipe' = TRUE
                  /\ pc' = "recv_popen"
                  /\ status' = status
                  /\ failures' = failures
             ELSE /\ Exit(1)
                  /\ failures' = failures \cup {Len(log) + 1}
                  /\ UNCHANGED <<send, pipe>>
    /\ UNCHANGED <<clock, prop, pool, saved, snaps, dstsnaps, oldsnaps, recv,
                   prop0, held, pruned>>
    /\ UNCHANGED apart

\* recv = subprocess.Popen(["zfs", "recv", "-F", dst], stdin=send.stdout, ...)
RecvPopen ==
    /\ pc = "recv_popen"
    /\ \E launched \in BOOLEAN :
          LET c == Cmd("recv", DST, Transfer.fn, <<>>) IN
          /\ log' = Append(log, c)
          /\ outcome' = Append(outcome, [launched |-> launched, rc |-> 0,
                                         stderr |-> <<>>])
          /\ raised' = IF launched THEN raised ELSE <<LaunchError>>
          /\ IF launched
             THEN /\ recv' = [recv EXCEPT !.state = "running"]
                  /\ pc' = "close"
                  /\ status' = status
                  /\ failures' = failures
             ELSE /\ Exit(1)
                  /\ failures' = failures \cup {Len(log) + 1}
                  /\ recv' = recv
    /\ UNCHANGED <<clock, prop, pool, saved, snaps, dstsnaps, oldsnaps, send,
                   pipe, prop0, held, pruned>>
    /\ UNCHANGED apart

\* A slip: the parent goes on to wait with send.stdout still open.
CloseStdoutKept ==
    /\ pc = "close"
    /\ pipe' = pipe
    /\ pc' = "communicate"
    /\ UNCHANGED <<status, clock, prop, pool, saved, snaps, dstsnaps, oldsnaps,
                   send, recv, log, prop0, held, failures, raised, outcome,
                   pruned>>
    /\ UNCHANGED apart

\* send.stdout.close()
CloseStdout ==
    /\ pc = "close"
    /\ pipe' = FALSE
    /\ pc' = "communicate"
    /\ UNCHANGED <<status, clock, prop, pool, saved, snaps, dstsnaps, oldsnaps,
                   send, recv, log, prop0, held, failures, raised, outcome,
                   pruned>>
    /\ UNCHANGED apart

\* The place in log of the one command of this kind.
Issued(cmd) == CHOOSE i \in 1..Len(log) : log[i].cmd = cmd

\* How a child of the transfer can end by itself: well, or with an error.
ChildCodes == {0, 1}

\* The ends of the pipe that can still be read: the receiver's stdin and the
\* parent's send.stdout.
HasReader == recv.state = "running" \/ (pipe /\ pc # "exit")

SIGPIPE == 13

\* The child zfs send ends by itself. It can end well only if the snapshots
\* it was asked for exist.
SenderExits ==
    /\ send.state = "running"
    /\ \E code \in ChildCodes :
          /\ code = 0 =>
                \A i \in 1..Len(Transfer.tags) : Snap(SRC, Transfer.tags[i]) \in pool
          /\ send' = [send EXCEPT !.state = "exited", !.exit = code]
          /\ outcome' = [outcome EXCEPT ![Issued("send")].rc = code]
          /\ failures' = IF code = 0 THEN failures
                         ELSE failures \cup {Issued("send")}
    /\ UNCHANGED <<pc, status, clock, prop, pool, saved, snaps, dstsnaps,
                   oldsnaps, recv, pipe, log, prop0, held, raised, pruned>>
    /\ UNCHANGED apart

\* The pipe is full: the write of zfs send blocks, which it only does while
\* some process holds the read end.
SenderBlocks ==
    /\ send.state = "running"
    /\ HasReader
    /\ send' = [send EXCEPT !.state = "blocked"]
    /\ UNCHANGED <<pc, status, clock, prop, pool, saved, snaps, dstsnaps,
                   oldsnaps, recv, pipe, log, prop0, held, failures, raised,
                   outcome, pruned>>
    /\ UNCHANGED apart

\* zfs recv reads from the pipe, and the blocked write goes on. The parent
\* never reads from send.stdout.
SenderResumes ==
    /\ send.state = "blocked"
    /\ recv.state = "running"
    /\ send' = [send EXCEPT !.state = "running"]
    /\ UNCHANGED <<pc, status, clock, prop, pool, saved, snaps, dstsnaps,
                   oldsnaps, recv, pipe, log, prop0, held, failures, raised,
                   outcome, pruned>>
    /\ UNCHANGED apart

\* Nothing holds the read end of the pipe any more: the write of zfs send,
\* blocked or not, gets SIGPIPE and the child dies of it.
SenderKilled ==
    /\ send.state \in {"running", "blocked"}
    /\ ~HasReader
    /\ send' = [send EXCEPT !.state = "exited", !.exit = -SIGPIPE]
    /\ outcome' = [outcome EXCEPT ![Issued("send")].rc = -SIGPIPE]
    /\ failures' = failures \cup {Issued("send")}
    /\ UNCHANGED <<pc, status, clock, prop, pool, saved, snaps, dstsnaps,
                   oldsnaps, recv, pipe, log, prop0, held, raised, pruned>>
    /\ UNCHANGED apart

\* The filesystem of the destination that receives source filesystem f.
Rebase(f) == DST \o SubSeq(f, Len(SRC) + 1, Len(f))

\* What the destination holds after a stream sent with -R was received with
\* -F: the snapshots of the source, and none that the source does not have.
Received ==
    {s \in pool : ~(s.fs = DST \/ IsPrefix(DST \o <<"/">>, s.fs))}
        \cup {Snap(Rebase(s.fs), s.name) : s \in {t \in pool : t.fs = SRC}}

\* The child zfs recv ends. It can end well only if the whole stream came,
\* and an incremental stream applies only to a destination holding its base.
ReceiverExits ==
    /\ recv.state = "running"
    /\ \E code \in ChildCodes :
          /\ code = 0 =>
                /\ send.state = "exited" /\ send.exit = 0
                /\ Transfer.fn = "sendincremental" =>
                      Snap(DST, Transfer.tags[1]) \in pool
          /\ recv' = [recv EXCEPT !.state = "exited", !.exit = code]
          /\ pool' = IF code = 0 THEN Received ELSE pool
          /\ pruned' = IF code = 0 THEN [pruned EXCEPT ![DST] = NotPruned]
                       ELSE pruned
          /\ outcome' = [outcome EXCEPT ![Issued("recv")].rc = code]
          /\ failures' = IF code = 0 THEN failures
                         ELSE failures \cup {Issued("recv")}
    /\ UNCHANGED <<pc, status, clock, prop, saved, snaps, dstsnaps, oldsnaps,
                   send, pipe, log, prop0, held, raised>>
    /\ UNCHANGED apart

\* The two tests after recv.communicate(): TRUE when one of them raises.
TransferRaises(send_returncode, recv_returncode) ==
    \/ send_returncode # <<0>> /\ send_returncode # <<>>
    \/ recv_returncode # <<0>> /\ send_returncode # <<>>

\* The OSError the first of the two tests that holds raises.
TransferError(send_returncode, recv_returncode) ==
    IF send_returncode # <<0>> /\ send_returncode # <<>>
    THEN CommandError("send", send_returncode[1])
    ELSE CommandError("recv", recv_returncode[1])

\* recv.communicate() returns once the receiver has ended and sets
\* recv.returncode; nothing waits for or polls the sender, so send.returncode
\* keeps the None (here <<>>) it has had since Popen. Then the two tests, and
\* back in main oldsnaps = snaps[:-2].
Communicate ==
    /\ pc = "communicate"
    /\ recv.state = "exited"
    /\ recv' = [recv EXCEPT !.returncode = <<recv.exit>>]
    /\ IF TransferRaises(send.returncode, recv'.returncode)
       THEN /\ Exit(1)
            /\ raised' = <<TransferError(send.returncode, recv'.returncode)>>
            /\ UNCHANGED <<oldsnaps, held, pruned>>
       ELSE /\ oldsnaps' = AllButLastTwo(snaps)
            /\ held' = [held EXCEPT ![SRC] = {s \in pool : s.fs = SRC}]
            /\ pc' = IF oldsnaps' = <<>> THEN "list_dst_again" ELSE "prune_src"
            /\ pruned' = IF oldsnaps' = <<>>
                         THEN [pruned EXCEPT ![SRC] = Pruning(SRC, 0, pool)]
                         ELSE pruned
            /\ UNCHANGED <<status, raised>>
    /\ UNCHANGED <<clock, prop, pool, saved, snaps, dstsnaps, send, pipe, log,
                   prop0, failures, outcome>>
    /\ UNCHANGED apart

(***************************************************************************)
(* main(): pruning, and the end of the session                             *)
(***************************************************************************)
\* The number of destroy commands of a log for one filesystem.
Destroys(l, fs) ==
    Cardinality({i \in 1..Len(l) : l[i].cmd = "destroy" /\ l[i].fs = fs})

\* A slip: the return code of zfs destroy is not tested, and the for loop goes
\* on with the next snapshot.
DestroySnapUntested(fs, here, next) ==
    /\ pc = here
    /\ oldsnaps # <<>>
    /\ \E r \in Results :
          LET snap == Head(oldsnaps) IN
          /\ Succeeded(r) => Snap(fs, snap) \in pool
          /\ Issue(Cmd("destroy", fs, "destroysnap", <<snap>>), r)
          /\ pool' = IF Succeeded(r) THEN pool \ {Snap(fs, snap)} ELSE pool
          /\ oldsnaps' = Tail(oldsnaps)
          /\ pc' = IF oldsnaps' = <<>> THEN next ELSE here
    /\ UNCHANGED <<status, clock, prop, saved, snaps, dstsnaps, send, recv,
                   pipe, prop0, held, raised, pruned>>
    /\ UNCHANGED apart

\* destroysnap(fs, snap) for the next snap of the for loop; zfs destroy
\* cannot succeed for a snapshot that does not exist.
DestroySnap(fs, here, next) ==
    /\ pc = here
    /\ oldsnaps # <<>>
    /\ \E r \in Results :
          LET snap == Head(oldsnaps) IN
          /\ Succeeded(r) => Snap(fs, snap) \in pool
          /\ Issue(Cmd("destroy", fs, "destroysnap", <<snap>>), r)
          /\ IF Succeeded(r)
             THEN /\ pool' = pool \ {Snap(fs, snap)}
                  /\ oldsnaps' = Tail(oldsnaps)
                  /\ pc' = IF oldsnaps' = <<>> THEN next ELSE here
                  /\ pruned' = IF oldsnaps' = <<>>
                               THEN [pruned EXCEPT
                                        ![fs] = Pruning(fs, Destroys(log', fs), pool')]
                               ELSE pruned
                  /\ UNCHANGED <<status, raised>>
             ELSE /\ Exit(1)
                  /\ raised' = <<Raised("destroy", r)>>
                  /\ UNCHANGED <<pool, oldsnaps, pruned>>
    /\ UNCHANGED <<clock, prop, saved, snaps, dstsnaps, send, recv, pipe,
                   prop0, held>>
    /\ UNCHANGED apart

\* dstsnaps = snapshots(dst) after the transfer, the test for an empty list,
\* and oldsnaps = dstsnaps[:-2]
ListDstAgain ==
    /\ pc = "list_dst_again"
    /\ \E r \in Results :
          /\ Issue(Cmd("list", DST, "snapshots", <<>>), r)
          /\ IF Succeeded(r)
             THEN /\ dstsnaps' = snapshots(DST)
                  /\ IF Len(dstsnaps') = 0
                     THEN /\ Exit(1)
                          /\ UNCHANGED <<oldsnaps, held, pruned>>
                     ELSE /\ oldsnaps' = AllButLastTwo(dstsnaps')
                          /\ held' = [held EXCEPT ![DST] = {s \in pool : s.fs = DST}]
                          /\ pc' = IF oldsnaps' = <<>> THEN "restore_dst"
                                   ELSE "prune_dst"
                          /\ pruned' = IF oldsnaps' = <<>>
                                       THEN [pruned EXCEPT
                                                ![DST] = Pruning(DST, 0, pool)]
                                       ELSE pruned
                          /\ status' = status
             ELSE /\ Exit(1)
                  /\ UNCHANGED <<dstsnaps, oldsnaps, held, pruned>>
          /\ raised' = IF Succeeded(r) THEN raised ELSE <<Raised("list", r)>>
    /\ UNCHANGED <<clock, prop, pool, saved, snaps, send, recv, pipe, prop0>>
    /\ UNCHANGED apart

\* A slip in the order of the two last calls: restoreauto(src, assrc) first.
NextSourceFirst ==
    \/ DisableGet(SRC, "disable_src_get", "disable_src_set")
    \/ DisableSet(SRC, "disable_src_set", "disable_dst_get")
    \/ DisableGet(DST, "disable_dst_get", "disable_dst_set")
    \/ DisableSet(DST, "disable_dst_set", "mksnapshot")
    \/ MkSnapshot(SRC, "mksnapshot", "list_src")
    \/ ListSrc
    \/ ListDst
    \/ SendPopen
    \/ RecvPopen
    \/ CloseStdout
    \/ SenderExits
    \/ SenderBlocks
    \/ SenderResumes
    \/ SenderKilled
    \/ ReceiverExits
    \/ Communicate
    \/ DestroySnap(SRC, "prune_src", "list_dst_again")
    \/ ListDstAgain
    \/ DestroySnap(DST, "prune_dst", "restore_dst")
    \/ RestoreAuto(SRC, "restore_dst", "restore_src")
    \/ RestoreAuto(DST, "restore_src", "exit")

Next ==
    \/ DisableGet(SRC, "disable_src_get", "disable_src_set")
    \/ DisableSet(SRC, "disable_src_set", "disable_dst_get")
    \/ DisableGet(DST, "disable_dst_get", "disable_dst_set")
    \/ DisableSet(DST, "disable_dst_set", "mksnapshot")
    \/ MkSnapshot(SRC, "mksnapshot", "list_src")
    \/ ListSrc
    \/ ListDst
    \/ SendPopen
    \/ RecvPopen
    \/ CloseStdout
    \/ SenderExits
    \/ SenderBlocks
    \/ SenderResumes
    \/ SenderKilled
    \/ ReceiverExits
    \/ Communicate
    \/ DestroySnap(SRC, "prune_src", "list_dst_again")
    \/ ListDstAgain
    \/ DestroySnap(DST, "prune_dst", "restore_dst")
    \/ RestoreAuto(DST, "restore_dst", "restore_src")
    \/ RestoreAuto(SRC, "restore_src", "exit")

Spec == Init /\ [][Next]_vars

(***************************************************************************)
(* Several runs of the script, one after the other, on the same two        *)
(* filesystems, which start in step: both hold the two snapshots that two  *)
(* earlier sessions have left.                                             *)
(***************************************************************************)
\* How many runs of the script are followed.
MaxSessions == 2

\* The next minute of the clock.
Tick(t) == [t EXCEPT !.minute = t.minute + 1]

MultiInit ==
    /\ pc = "disable_src_get"
    /\ status = 0
    /\ clock = Now
    /\ prop = [f \in FS |-> True]
    /\ pool = {OldSnap(f, 1) : f \in FS} \cup {OldSnap(f, 2) : f \in FS}
    /\ saved = [f \in FS |-> <<>>]
    /\ snaps = <<>>
    /\ dstsnaps = <<>>
    /\ oldsnaps = <<>>
    /\ send = NoProc
    /\ recv = NoProc
    /\ pipe = FALSE
    /\ log = <<>>
    /\ prop0 = prop
    /\ held = [f \in FS |-> {}]
    /\ failures = {}
    /\ raised = <<>>
    /\ outcome = <<>>
    /\ pruned = [f \in FS |-> NotPruned]
    /\ session = 1
    /\ OthersIdle

\* The script has exited and is run again a minute later: main() starts with
\* nothing but the state of the two filesystems.
NewSession ==
    /\ pc = "exit"
    /\ session < MaxSessions
    /\ clock.minute < 59
    /\ session' = session + 1
    /\ clock' = Tick(clock)
    /\ pc' = "disable_src_get"
    /\ status' = 0
    /\ saved' = [f \in FS |-> <<>>]
    /\ snaps' = <<>>
    /\ dstsnaps' = <<>>
    /\ oldsnaps' = <<>>
    /\ send' = NoProc
    /\ recv' = NoProc
    /\ pipe' = FALSE
    /\ log' = <<>>
    /\ prop0' = prop
    /\ held' = [f \in FS |-> {}]
    /\ failures' = {}
    /\ raised' = <<>>
    /\ outcome' = <<>>
    /\ UNCHANGED <<prop, pool, pruned, p4, fx, gl>>

MultiNext == Next \/ NewSession

SpecMulti == MultiInit /\ [][MultiNext]_vars

(***************************************************************************)
(* A run of the script in the minute in which an earlier run has made its  *)
(* snapshot and then ended before the transfer: the source holds the       *)
(* snapshot of this minute, the destination does not.                      *)
(***************************************************************************)
SameMinuteInit ==
    /\ pc = "disable_src_get"
    /\ status = 0
    /\ clock = Now
    /\ prop = [f \in FS |-> True]
    /\ pool = {OldSnap(f, 1) : f \in FS} \cup {OldSnap(f, 2) : f \in FS}
                  \cup {Snap(SRC, ReplicaName(strftime(Now)))}
    /\ saved = [f \in FS |-> <<>>]
    /\ snaps = <<>>
    /\ dstsnaps = <<>>
    /\ oldsnaps = <<>>
    /\ send = NoProc
    /\ recv = NoProc
    /\ pipe = FALSE
    /\ log = <<>>
    /\ prop0 = prop
    /\ held = [f \in FS |-> {}]
    /\ failures = {}
    /\ raised = <<>>
    /\ outcome = <<>>
    /\ pruned = [f \in FS |-> NotPruned]
    /\ session = 2
    /\ OthersIdle

SpecSameMinute == SameMinuteInit /\ [][Next]_vars

(***************************************************************************)
(* One session, from the same start, in which the steps of the transfer    *)
(* that wait for nothing are taken: the parent, once it can close          *)
(* send.stdout or return from recv.communicate(), does so, and the kernel  *)
(* delivers SIGPIPE to the writer of a pipe that has no reader.            *)
(***************************************************************************)
Fairness ==
    /\ WF_vars(CloseStdout)
    /\ WF_vars(Communicate)
    /\ WF_vars(SenderKilled)

SpecFair == MultiInit /\ [][Next]_vars /\ Fairness

(***************************************************************************)
(* The tag of a new snapshot among the tags of earlier ones: mksnapshot()  *)
(* and snapshots() for the times the clock can show. The session has       *)
(* disabled the auto-snapshot service of both filesystems and is about to  *)
(* call mksnapshot(src); the source holds the snapshot of one earlier      *)
(* session.                                                                *)
(***************************************************************************)
\* The values of the fields around which the width of the text could change,
\* and the first and the last year datetime.utcnow() can return.
TagYears == {1999, 2000}

TagFields == {9, 10}

Epoch == DateTime(1970, 1, 1, 0, 0)

Latest == DateTime(9999, 12, 31, 23, 59)

TagTimes ==
    {DateTime(y, mo, d, h, mi) :
        y \in TagYears, mo \in TagFields, d \in TagFields, h \in TagFields,
        mi \in TagFields} \cup {Epoch, Latest}

\* The four commands of disableauto(src) and disableauto(dst), all well.
GuardLog ==
    <<Cmd("get", SRC, "disableauto", <<>>),
      Cmd("set", SRC, "disableauto", <<False>>),
      Cmd("get", DST, "disableauto", <<>>),
      Cmd("set", DST, "disableauto", <<False>>)>>

Well == [launched |-> TRUE, rc |-> 0]

TagInit ==
    /\ pc = "mksnapshot"
    /\ status = 0
    /\ clock \in TagTimes
    /\ prop0 = [f \in FS |-> True]
    /\ prop = [f \in FS |-> False]
    /\ \E t \in TagTimes : pool = {Snap(SRC, ReplicaName(strftime(t)))}
    /\ saved = [f \in FS |-> True \o <<"\n">>]
    /\ snaps = <<>>
    /\ dstsnaps = <<>>
    /\ oldsnaps = <<>>
    /\ send = NoProc
    /\ recv = NoProc
    /\ pipe = FALSE
    /\ log = GuardLog
    /\ outcome = [i \in 1..Len(GuardLog) |-> Outcome(GuardLog[i], Well)]
    /\ held = [f \in FS |-> {}]
    /\ failures = {}
    /\ raised = <<>>
    /\ pruned = [f \in FS |-> NotPruned]
    /\ session = 1
    /\ OthersIdle

TagNext ==
    \/ MkSnapshot(SRC, "mksnapshot", "list_src")
    \/ ListSrc

SpecTag == TagInit /\ [][TagNext]_vars

(***************************************************************************)
(* perforce/p4clean.py: delete_changes()                                   *)
(***************************************************************************)
\* replica.py is not running.
ReplicaIdle ==
    /\ pc = "exit"
    /\ status = 0
    /\ clock = Now
    /\ prop = [f \in FS |-> Unset]
    /\ pool = {}
    /\ saved = [f \in FS |-> <<>>]
    /\ snaps = <<>>
    /\ dstsnaps = <<>>
    /\ oldsnaps = <<>>
    /\ send = NoProc
    /\ recv = NoProc
    /\ pipe = FALSE
    /\ log = <<>>
    /\ prop0 = prop
    /\ held = [f \in FS |-> {}]
    /\ failures = {}
    /\ raised = <<>>
    /\ outcome = <<>>
    /\ pruned = [f \in FS |-> NotPruned]
    /\ session = 1

\* A datetime, to the second.
P4Time(y, mo, d, h, mi, s) ==
    [year |-> y, month |-> mo, day |-> d, hour |-> h, minute |-> mi,
     second |-> s]

\* int() of a text of digits
RECURSIVE Number(_)
Number(s) ==
    IF s = <<>> THEN 0
    ELSE Number(SubSeq(s, 1, Len(s) - 1)) * 10 + (IndexOf(Digits, s[Len(s)]) - 1)

IsLeap(y) == (y % 4 = 0 /\ y % 100 # 0) \/ y % 400 = 0

DaysInMonth(y, m) ==
    IF m = 2 THEN (IF IsLeap(y) THEN 29 ELSE 28)
    ELSE IF m \in {4, 6, 9, 11} THEN 30 ELSE 31

\* '%Y/%m/%d %H:%M:%S'; "d" stands for a digit
DateFormat ==
    <<"d", "d", "d", "d", "/", "d", "d", "/", "d", "d", " ", "d", "d", ":", "d", "d", ":", "d", "d">>

\* datetime.strptime(text, '%Y/%m/%d %H:%M:%S') for a text with all its
\* digits or with another shape: <<the datetime>>, or <<>> for ValueError.
strptime(text) ==
    IF /\ Len(text) = Len(DateFormat)
       /\ \A k \in 1..Len(DateFormat) :
             IF DateFormat[k] = "d" THEN IsDigit(text[k])
             ELSE text[k] = DateFormat[k]
    THEN LET t == P4Time(Number(SubSeq(text, 1, 4)), Number(SubSeq(text, 6, 7)),
                         Number(SubSeq(text, 9, 10)), Number(SubSeq(text, 12, 13)),
                         Number(SubSeq(text, 15, 16)), Number(SubSeq(text, 18, 19)))
         IN  IF /\ t.year >= 1
                /\ t.month \in 1..12
                /\ t.day \in 1..DaysInMonth(t.year, t.month)
                /\ t.hour <= 23 /\ t.minute <= 59 /\ t.second <= 61
             THEN <<t>> ELSE <<>>
    ELSE <<>>

\* a <= b for two datetimes
TimeLE(a, b) ==
    LET x == <<a.year, a.month, a.day, a.hour, a.minute, a.second>>
        y == <<b.year, b.month, b.day, b.hour, b.minute, b.second>>
    IN  \/ x = y
        \/ \E i \in 1..6 : x[i] < y[i] /\ \A j \in 1..(i - 1) : x[j] = y[j]

\* t - timedelta(n)
DayBefore(t) ==
    IF t.day > 1 THEN [t EXCEPT !.day = t.day - 1]
    ELSE IF t.month > 1
    THEN [t EXCEPT !.month = t.month - 1,
                   !.day = DaysInMonth(t.year, t.month - 1)]
    ELSE [t EXCEPT !.year = t.year - 1, !.month = 12, !.day = 31]

RECURSIVE Minus(_, _)
Minus(t, n) == IF n = 0 THEN t ELSE Minus(DayBefore(t), n - 1)

\* timedelta(7)
Week == 7

\* datetime.now() when delete_changes() is called
P4Now == P4Time(2020, 3, 5, 12, 0, 0)

week_ago == Minus(P4Now, Week)

\* The texts a change can have as its Date: a week old to the second, a
\* second less than a week old, older, of yesterday, and of yesterday in
\* the form that has the day only.
P4Dates ==
    { <<"2", "0", "2", "0", "/", "0", "2", "/", "2", "7", " ", "1", "2", ":", "0", "0", ":", "0", "0">>,
      <<"2", "0", "2", "0", "/", "0", "2", "/", "2", "7", " ", "1", "2", ":", "0", "0", ":", "0", "1">>,
      <<"2", "0", "1", "9", "/", "1", "2", "/", "3", "1", " ", "2", "3", ":", "5", "9", ":", "5", "9">>,
      <<"2", "0", "2", "0", "/", "0", "3", "/", "0", "4", " ", "0", "8", ":", "3", "0", ":", "0", "0">>,
      <<"2", "0", "2", "0", "/", "0", "3", "/", "0", "4">> }

\* How many changes p4.iterate_changes() yields at most.
MaxChanges == 2

\* The lists of changes of the user: change k of a list has number k.
ChangeLists ==
    UNION {{[k \in 1..n |-> [Change |-> k, Date |-> d[k]]] :
               d \in [1..n -> P4Dates]} : n \in 0..MaxChanges}

P4Init ==
    /\ ReplicaIdle
    /\ fx = NoRun
    /\ gl = NoRun
    /\ \E all \in BOOLEAN, pending \in BOOLEAN, delete \in BOOLEAN,
          changes \in ChangeLists :
          p4 = [pc |-> "loop", all |-> all, pending |-> pending,
                delete |-> delete, changes |-> changes, i |-> 1,
                date |-> <<>>, deleted |-> {}, ignored |-> {}]

\* The body of the for loop for the next change. A Date that does not parse
\* leaves date as it was: what the change before gave it, or not bound at
\* all, and then the test of date raises UnboundLocalError, which nothing
\* catches. p4.delete_shelve() or p4.delete_change() deletes the change or
\* raises P4Exception.
delete_changes ==
    /\ p4.pc = "loop"
    /\ p4.i <= Len(p4.changes)
    /\ LET change == p4.changes[p4.i]
           parsed == strptime(change.Date)
           date == IF parsed # <<>> THEN parsed ELSE p4.date
       IN  IF date = <<>>
           THEN p4' = [p4 EXCEPT !.pc = "crashed"]
           ELSE IF TimeLE(date[1], week_ago) \/ p4.all
           THEN IF p4.delete
                THEN \E raises \in BOOLEAN :
                        p4' = [p4 EXCEPT
                                 !.date = date,
                                 !.i = p4.i + 1,
                                 !.deleted =
                                    IF raises THEN p4.deleted
                                    ELSE p4.deleted \cup
                                           {[Change |-> change.Change,
                                             by |-> IF p4.pending
                                                    THEN "delete_change"
                                                    ELSE "delete_shelve"]}]
                ELSE p4' = [p4 EXCEPT !.date = date, !.i = p4.i + 1]
           ELSE p4' = [p4 EXCEPT !.date = date, !.i = p4.i + 1,
                                 !.ignored = p4.ignored \cup {change.Change}]
    /\ UNCHANGED <<replica, fx, gl>>

\* The changes are exhausted and delete_changes() returns to main.
p4clean_main ==
    /\ p4.pc = "loop"
    /\ p4.i > Len(p4.changes)
    /\ p4' = [p4 EXCEPT !.pc = "done"]
    /\ UNCHANGED <<replica, fx, gl>>

P4Next == delete_changes \/ p4clean_main

SpecP4 == P4Init /\ [][P4Next]_vars

(***************************************************************************)
(* zfs/fixperms.py: main() and _fix_perms()                                *)
(*                                                                         *)
(* The tree under the path has files and directories at the top, and files *)
(* in each directory below it. A path is the sequence of the names that    *)
(* os.path.join puts together, <<>> being the path that was given.         *)
(***************************************************************************)
\* int(text, 8)
RECURSIVE Octal(_)
Octal(s) ==
    IF s = <<>> THEN 0
    ELSE Octal(SubSeq(s, 1, Len(s) - 1)) * 8 + (IndexOf(Digits, s[Len(s)]) - 1)

\* The defaults of --file and --dir
fperms == Octal(<<"6", "4", "4">>)

dperms == Octal(<<"7", "5", "5">>)

\* The names directories and files can have; -x names x and y.
FxDirNames == {"x", "a", "b"}

FxFileNames == {"y", "f"}

\* How many directories the top of the tree has at most.
MaxEntries == 2

\* The lists of at most n different names of S, in every order a directory
\* can be read in.
Listings(S, n) ==
    UNION {{l \in [1..k -> S] : \A i, j \in 1..k : l[i] = l[j] => i = j} :
              k \in 0..n}

\* The mode every entry has before the run.
FxModes == {Octal(<<"7", "0", "0">>), Octal(<<"6", "4", "4">>)}

FxInit ==
    /\ ReplicaIdle
    /\ p4 = NoRun
    /\ gl = NoRun
    /\ \E exclude \in {<<>>, <<"x">>, <<"x", "y">>},
          dirs \in Listings(FxDirNames, MaxEntries),
          files \in Listings(FxFileNames, MaxEntries),
          below \in Listings(FxFileNames, MaxEntries),
          mode \in FxModes :
          fx = [pc |-> "walk", exclude |-> exclude, dirs |-> dirs,
                files |-> files, below |-> below, mode |-> mode,
                walk |-> <<<<>>>>, visited |-> {}, chmod |-> {}]

\* names.pop(ii) for an index counted from 0
Pop(names, ii) == SubSeq(names, 1, ii) \o SubSeq(names, ii + 2, Len(names))

\* for ii in range(len(names) - 1, 0, -1): if names[ii] in exclude: pop(ii),
\* from index ii on down; index 0 is not in the range.
RECURSIVE PopExcluded(_, _, _)
PopExcluded(names, ii, exclude) ==
    IF ii <= 0 THEN names
    ELSE PopExcluded(IF InList(names[ii + 1], exclude) THEN Pop(names, ii)
                     ELSE names,
                     ii - 1, exclude)

\* _fix_perms(leading, names, perms): the paths it calls os.chmod on
_fix_perms(leading, names, perms) ==
    {leading \o <<names[i]>> : i \in {k \in 1..Len(names) : fx.mode # perms}}

\* One turn of "for dirpath, dirnames, filenames in os.walk(path)": the two
\* loops that pop the excluded names, the two calls of _fix_perms, and then
\* os.walk goes down into what is left of dirnames, in order.
fixperms_main ==
    /\ fx.pc = "walk"
    /\ fx.walk # <<>>
    /\ LET dirpath == Head(fx.walk)
           listed == IF dirpath = <<>>
                     THEN [dirnames |-> fx.dirs, filenames |-> fx.files]
                     ELSE [dirnames |-> <<>>, filenames |-> fx.below]
           dirnames == IF fx.exclude # <<>>
                       THEN PopExcluded(listed.dirnames,
                                        Len(listed.dirnames) - 1, fx.exclude)
                       ELSE listed.dirnames
           filenames == IF fx.exclude # <<>>
                        THEN PopExcluded(listed.filenames,
                                         Len(listed.filenames) - 1, fx.exclude)
                        ELSE listed.filenames
       IN  fx' = [fx EXCEPT
                    !.visited = fx.visited \cup {dirpath},
                    !.chmod = fx.chmod \cup _fix_perms(dirpath, filenames, fperms)
                                  \cup _fix_perms(dirpath, dirnames, dperms),
                    !.walk = [i \in 1..Len(dirnames) |-> dirpath \o <<dirnames[i]>>]
                                 \o Tail(fx.walk)]
    /\ UNCHANGED <<replica, p4, gl>>

\* os.walk is exhausted.
fixperms_end ==
    /\ fx.pc = "walk"
    /\ fx.walk = <<>>
    /\ fx' = [fx EXCEPT !.pc = "done"]
    /\ UNCHANGED <<replica, p4, gl>>

FxNext == fixperms_main \/ fixperms_end

SpecFx == FxInit /\ [][FxNext]_vars

(***************************************************************************)
(* zfs/glacier.py: main() for one section of the configuration file and    *)
(* one LABEL, run and, after a run that a failed command has ended, run    *)
(* again. The date column of glacier-cmd lsvault is not followed: a vault  *)
(* is older than a hundred days by its name.                               *)
(***************************************************************************)
\* How many times the script is run with the label.
MaxRuns == 2

\* How many archive_ options the section has at most.
MaxArchives == 2

\* The name of the section, args.label, and the archive_ options.
Section == <<"v", "a", "u", "l", "t", "_", "b">>

Label == <<"l">>

GlOptions == {<<"a", "r", "c", "h", "i", "v", "e", "_", "h">>, <<"a", "r", "c", "h", "i", "v", "e", "_", "m">>}

\* "{}-{}".format(section[6:], args.label)
VaultName(section, label) ==
    SubSeq(section, 7, Len(section)) \o <<"-">> \o label

Vault == VaultName(Section, Label)

\* Vaults of other sections and labels: one whose name ends with the name of
\* ours, and one made more than a hundred days ago.
LongerVault == <<"a">> \o Vault

OldVault == VaultName(Section, <<"k">>)

\* "{}.tar.bz2".format(label)
Tarball(label) == label \o <<".", "t", "a", "r", ".", "b", "z", "2">>

\* option[8:]
ArchiveLabel(option) == SubSeq(option, 9, Len(option))

\* The output of glacier-cmd lsvault: a line per vault.
LsvaultOutput(vaults) ==
    LET names == SeqOf(vaults)
    IN  Concat([k \in 1..Len(names) |-> <<"|">> \o names[k] \o <<"|", "\n">>])

\* The output of glacier-cmd inventory: a line per archive, its description
\* in the first column.
InventoryOutput(descriptions) ==
    LET ds == SeqOf(descriptions)
    IN  Concat([k \in 1..Len(ds) |-> <<"|">> \o ds[k] \o <<"|", "0", "|", "\n">>])

\* [l.split('|')[1] for l in i.splitlines() if l[0] == '|']
ParseInventory(output) ==
    LET lines == SelectSeq(SplitLines(output), LAMBDA l : l[1] = "|")
    IN  [k \in 1..Len(lines) |-> Split(lines[k], "|")[2]]

\* What the vault of this section and label holds when a run starts.
InVault(g) == IF Vault \in g.vaults THEN g.stored ELSE {}

GlInit ==
    /\ ReplicaIdle
    /\ p4 = NoRun
    /\ fx = NoRun
    /\ \E options \in Listings(GlOptions, MaxArchives),
          others \in SUBSET {LongerVault, OldVault} :
          gl = [pc |-> "snapshot", run |-> 1, status |-> 0,
                options |-> options, i |-> 1, datasets |-> {},
                vaults |-> others, stored |-> {}, tmp |-> {},
                existed |-> FALSE, archives |-> <<>>, uploaded |-> {},
                found |-> {}]

\* sys.exit(retcode) of _run_cmd for a command that failed
GlExit(g) == [g EXCEPT !.pc = "exit", !.status = 1]

\* _dataset_exists(snapshot), and zfs snapshot when it does not
_ensure_snapshot_exists ==
    /\ gl.pc = "snapshot"
    /\ \E ok \in BOOLEAN :
          gl' = IF "snapshot" \in gl.datasets THEN [gl EXCEPT !.pc = "clone"]
                ELSE IF ok
                THEN [gl EXCEPT !.pc = "clone",
                                !.datasets = @ \cup {"snapshot"}]
                ELSE GlExit(gl)
    /\ UNCHANGED <<replica, p4, fx>>

\* _dataset_exists(clone), and zfs clone -p when it does not
_ensure_clone_exists ==
    /\ gl.pc = "clone"
    /\ \E ok \in BOOLEAN :
          gl' = IF "clone" \in gl.datasets THEN [gl EXCEPT !.pc = "vault"]
                ELSE IF ok
                THEN [gl EXCEPT !.pc = "vault", !.datasets = @ \cup {"clone"}]
                ELSE GlExit(gl)
    /\ UNCHANGED <<replica, p4, fx>>

\* archives = [], then _ensure_vault_exists(vault): glacier-cmd lsvault, the
\* test "name not in lsvault" on the text, glacier-cmd mkvault; it returns
\* True if the vault was there and False if it was made, and main retrieves
\* the inventory "if not _ensure_vault_exists(vault)".
_ensure_vault_exists ==
    /\ gl.pc = "vault"
    /\ \E lsvault \in BOOLEAN, mkvault \in BOOLEAN :
          LET listed == Contains(LsvaultOutput(gl.vaults), Vault)
          IN  gl' = IF ~lsvault THEN GlExit(gl)
                    ELSE IF listed
                    THEN [gl EXCEPT !.pc = "backup", !.existed = TRUE,
                                    !.archives = <<>>]
                    ELSE IF mkvault
                    THEN [gl EXCEPT !.pc = "inventory", !.existed = FALSE,
                                    !.archives = <<>>,
                                    !.vaults = @ \cup {Vault}]
                    ELSE GlExit(gl)
    /\ UNCHANGED <<replica, p4, fx>>

\* archives = _retrieve_inventory(vault)
_retrieve_inventory ==
    /\ gl.pc = "inventory"
    /\ \E ok \in BOOLEAN :
          gl' = IF ok
                THEN [gl EXCEPT !.pc = "backup",
                                !.archives =
                                   ParseInventory(InventoryOutput(InVault(gl)))]
                ELSE GlExit(gl)
    /\ UNCHANGED <<replica, p4, fx>>

\* _backup_single(vault, option[8:], tmpdir, paths, archives) for the next
\* option: the tarball is made unless the file is there, uploaded, which
\* works only for a vault that exists, and removed.
_backup_single ==
    /\ gl.pc = "backup"
    /\ gl.i <= Len(gl.options)
    /\ LET tarball == Tarball(ArchiveLabel(gl.options[gl.i]))
       IN  IF ~InList(tarball, gl.archives)
           THEN \E ok \in BOOLEAN :
                   gl' = IF ok /\ Vault \in gl.vaults
                         THEN [gl EXCEPT !.i = @ + 1,
                                         !.stored = @ \cup {tarball},
                                         !.uploaded = @ \cup {tarball},
                                         !.tmp = @ \ {tarball}]
                         ELSE [GlExit(gl) EXCEPT !.tmp = @ \cup {tarball}]
           ELSE gl' = [gl EXCEPT !.i = @ + 1]
    /\ UNCHANGED <<replica, p4, fx>>

\* The options are exhausted: zfs destroy clone, zfs destroy snapshot.
glacier_main ==
    /\ gl.pc = "backup"
    /\ gl.i > Len(gl.options)
    /\ \E clone \in BOOLEAN, snapshot \in BOOLEAN :
          gl' = IF ~clone THEN GlExit(gl)
                ELSE IF ~snapshot
                THEN [GlExit(gl) EXCEPT !.datasets = @ \ {"clone"}]
                ELSE [gl EXCEPT !.pc = "prune", !.datasets = {}]
    /\ UNCHANGED <<replica, p4, fx>>

\* _prune_vaults(): glacier-cmd lsvault, and glacier-cmd rmvault for the
\* vaults older than a hundred days.
_prune_vaults ==
    /\ gl.pc = "prune"
    /\ \E ok \in BOOLEAN :
          gl' = IF ok THEN [gl EXCEPT !.pc = "done", !.vaults = @ \ {OldVault}]
                ELSE GlExit(gl)
    /\ UNCHANGED <<replica, p4, fx>>

\* The script is run again with the same label after a run that ended with
\* an error.
glacier_again ==
    /\ gl.pc = "exit"
    /\ gl.run < MaxRuns
    /\ gl' = [gl EXCEPT !.pc = "snapshot", !.run = @ + 1, !.status = 0,
                        !.i = 1, !.existed = FALSE, !.archives = <<>>,
                        !.uploaded = {}, !.found = InVault(gl)]
    /\ UNCHANGED <<replica, p4, fx>>

GlNext ==
    \/ _ensure_snapshot_exists
    \/ _ensure_clone_exists
    \/ _ensure_vault_exists
    \/ _retrieve_inventory
    \/ _backup_single
    \/ glacier_main
    \/ _prune_vaults
    \/ glacier_again

SpecGlacier == GlInit /\ [][GlNext]_vars

(***************************************************************************)
(* What the properties below speak of                                      *)
(***************************************************************************)
\* The places in log of the commands of the given kinds.
Places(kinds) == {i \in 1..Len(log) : log[i].cmd \in kinds}

\* The places in log of the listings of the destination.
DstListings == {i \in Places({"list"}) : log[i].fs = DST}

\* main holds both inventories and has not listed the destination again.
Inventoried == Cardinality(DstListings) = 1 /\ DstListings \cap failures = {}

\* disableauto(f) has set the property to false.
Acquired(f) ==
    \E i \in Places({"set"}) \ failures : log[i].fn = "disableauto" /\ log[i].fs = f

\* restoreauto(f, ...) has been called.
RestoreCalled(f) ==
    \E i \in Places({"set"}) : log[i].fn = "restoreauto" /\ log[i].fs = f

\* sendsnapshot() or sendincremental() has returned to main without raising.
TransferReturned ==
    \/ pc \in {"prune_src", "list_dst_again", "prune_dst", "restore_dst",
               "restore_src"}
    \/ pc = "exit" /\ \E i \in Places({"recv"}) : i < Len(log)

\* A name that is the replica: prefix followed by a YYYY-mm-dd-HH:MM time.
IsManagedName(name) ==
    /\ Len(name) = Len(prog) - 1
    /\ MatchAt(<<"@">> \o name, 1)

\* The managed snapshot names a filesystem holds, among the snapshots S.
ManagedIn(S, f) == {s.name : s \in {t \in S : t.fs = f /\ IsManagedName(t.name)}}

\* The two greatest names of N in tag order (all of N when it has fewer).
TwoNewest(N) ==
    {n \in N : Cardinality({m \in N : StrLess(n, m)}) < 2}

(***************************************************************************)
(* The properties                                                          *)
(***************************************************************************)
\* C1: whatever the outcome of the session, once it has ended the
\* auto-snapshot property of the source and of the destination has the value
\* it had before the session, and an unset property is still unset.
C1_GuardRestored == pc = "exit" => prop = prop0

\* C2: when the session fails after a guard was acquired, restoreauto has been
\* run for every filesystem whose guard was acquired by the time the process
\* exits.
C2_RestoreRunsOnFailure ==
    (pc = "exit" /\ status # 0) =>
        \A f \in FS : Acquired(f) => RestoreCalled(f)

\* The decision table of the transfer mode, for a non-empty source inventory.
RefDecision(src, dst) ==
    IF dst # <<>> /\ \A i \in 1..Len(src) : src[i] # dst[Len(dst)]
    THEN [kind |-> "Error", tags |-> <<>>]
    ELSE IF Len(src) = 1
    THEN [kind |-> "Full", tags |-> <<src[1]>>]
    ELSE IF dst = <<>>
    THEN [kind |-> "Full", tags |-> <<src[Len(src)]>>]
    ELSE [kind |-> "Incremental", tags |-> <<src[Len(src) - 1], src[Len(src)]>>]

\* C3: once main holds both inventories, the transfer it starts is the one of
\* the decision table: none on Error (also when the source has a single
\* entry), sendsnapshot with the table's tag on Full, sendincremental with the
\* table's two tags on Incremental; and it ends without a transfer only on
\* Error.
C3_TransferMode ==
    Inventoried =>
        LET ref == RefDecision(snaps, dstsnaps)
            sends == Places({"send"})
        IN  /\ ref.kind = "Error" => sends = {} /\ pc = "exit"
            /\ ref.kind # "Error" => pc = "send_popen" \/ sends # {}
            /\ \A i \in sends :
                  /\ ref.kind = "Full" =>
                        log[i].fn = "sendsnapshot" /\ log[i].args = ref.tags
                  /\ ref.kind = "Incremental" =>
                        log[i].fn = "sendincremental" /\ log[i].args = ref.tags

\* C3 happens: an incremental transfer was started for a source that holds
\* more than two tags, and a full one for a source that holds several tags.
C3_Witness ==
    /\ Inventoried
    /\ Len(snaps) > 2
    /\ Len(dstsnaps) > 0
    /\ \E i \in Places({"send"}) : log[i].fn = "sendincremental"

\* C4: when the latest tag of a non-empty destination inventory is not in the
\* source inventory, the session has ended with a non-zero status and has
\* issued no send, no recv and no destroy.
C4_DivergenceAborts ==
    (/\ Inventoried
     /\ Len(dstsnaps) > 0
     /\ \A i \in 1..Len(snaps) : snaps[i] # dstsnaps[Len(dstsnaps)])
        => /\ pc = "exit"
           /\ status # 0
           /\ Places({"send", "recv", "destroy"}) = {}

\* C4 happens: a session ended on a destination whose latest tag the source
\* does not hold, while an older tag of the destination is in the source.
C4_Witness ==
    /\ pc = "exit"
    /\ Inventoried
    /\ Len(dstsnaps) > 1
    /\ ~InList(dstsnaps[Len(dstsnaps)], snaps)
    /\ InList(dstsnaps[1], snaps)

\* C5: a transfer returns to main without raising only if both children's
\* exit codes were collected and both are zero.
C5_TransferFailureRaises ==
    TransferReturned => send.returncode = <<0>> /\ recv.returncode = <<0>>

\* C6: when the receiver has exited non-zero, no destroy is issued, and the
\* process does not exit with status 0.
C6_RecvFailureSurfaced ==
    (recv.state = "exited" /\ recv.exit # 0) =>
        /\ Places({"destroy"}) = {}
        /\ pc = "exit" => status # 0

\* C7: the process exits with status 0 only when every command of the session
\* succeeded.
C7_ExitZeroOnlyIfAllSucceeded ==
    (pc = "exit" /\ status = 0) => failures = {}

\* C8: after a session that exits with status 0, each filesystem holds at most
\* two managed snapshots, and they are the two most recent of those it held
\* when its pruning began.
C8_RetainsTwoNewest ==
    (pc = "exit" /\ status = 0) =>
        \A f \in FS :
            /\ Cardinality(ManagedIn(pool, f)) <= 2
            /\ ManagedIn(pool, f) = TwoNewest(ManagedIn(held[f], f))

\* C9: snapshots(fs) returns, in ascending order, exactly the managed names of
\* the snapshots of fs itself (stated for the source, right after main has
\* listed it).
C9_InventoryExact ==
    pc = "list_dst" => snaps = ListSort(SeqOf(ManagedIn(pool, SRC)))

\* C10: after a create-snapshot command that failed, no send, recv or destroy
\* is issued and the snapshot is not attempted again.
C10_CreateFailureAborts ==
    \A i \in Places({"snapshot"}) \cap failures :
        \A j \in Places({"send", "recv", "destroy", "snapshot"}) : j <= i

\* The list commands that ran and returned a non-zero code.
FailedLists ==
    {i \in Places({"list"}) : outcome[i].launched /\ outcome[i].rc # 0}

\* The failure in main's handler names the return code of command i.
CarriesCode(i) ==
    /\ raised # <<>>
    /\ Contains(raised[1].strerror, IntStr(outcome[i].rc))

\* The session ended at command i with a non-zero status.
EndedAt(i) ==
    /\ pc = "exit"
    /\ status # 0
    /\ \A j \in Places({"send", "recv", "destroy"}) : j < i

ValueRead(f) == SubSeq(saved[f], 1, Len(saved[f]) - 1)

\* The set commands of restoreauto() for a filesystem.
RestoreSets(f) ==
    {i \in Places({"set"}) : log[i].fn = "restoreauto" /\ log[i].fs = f}

\* C12: for a filesystem whose property was read as unset ("-") no set
\* command of restoreauto is issued, and for one that had a value every set
\* command of restoreauto carries exactly the value read.
C12_RestoreExactOrSkipped ==
    \A f \in FS :
        IF ValueRead(f) = <<"-">>
        THEN RestoreSets(f) = {}
        ELSE \A i \in RestoreSets(f) : log[i].args = <<ValueRead(f)>>

\* The time whose tag a managed name carries.
TimeOf(name) == CHOOSE t \in TagTimes : ReplicaName(strftime(t)) = name

\* t1 is an earlier minute than t2.
Earlier(t1, t2) ==
    LET a == <<t1.year, t1.month, t1.day, t1.hour, t1.minute>>
        b == <<t2.year, t2.month, t2.day, t2.hour, t2.minute>>
    IN  \E i \in 1..5 : a[i] < b[i] /\ \A j \in 1..(i - 1) : a[j] = b[j]

\* The snapshot commands that succeeded.
Created == Places({"snapshot"}) \ failures

\* C13: the name of every snapshot command of mksnapshot matches the pattern
\* of snapshots(), and once a snapshot was created and the source listed, the
\* inventory holds the name just created.
C13_CreatedIsListed ==
    /\ \A i \in Places({"snapshot"}) :
          Search(FullName(log[i].fs, log[i].args[1]))
    /\ (pc = "list_dst" /\ Created # {}) =>
          \A i \in Created : InList(log[i].args[1], snaps)

\* C13 happens: a snapshot was created in the last minute of the year 9999
\* and the source was listed after it.
C13_Witness ==
    /\ pc = "list_dst"
    /\ Created # {}
    /\ clock = Latest
    /\ Len(snaps) = 2

\* C14: for the time t1 of the snapshot an earlier session left and the time
\* t2 of the clock, the tag of t1 is smaller as a string than the tag of t2
\* exactly when t1 is the earlier minute, and the inventory snapshots()
\* returns is in the order of the times.
C14_TagOrderIsTimeOrder ==
    /\ \A t1 \in TagTimes :
          Snap(SRC, ReplicaName(strftime(t1))) \in pool =>
              (StrLess(strftime(t1), strftime(clock)) <=> Earlier(t1, clock))
    /\ pc = "list_dst" =>
          \A i \in 1..Len(snaps), j \in 1..Len(snaps) :
              i < j => Earlier(TimeOf(snaps[i]), TimeOf(snaps[j]))

\* C14 happens: the inventory holds two tags, and the one just created is not
\* the last, the clock being behind the time of the earlier session.
C14_Witness ==
    /\ pc = "list_dst"
    /\ Len(snaps) = 2
    /\ snaps[1] = NewSnap(SRC).name
    /\ TimeOf(snaps[1]).year = TimeOf(snaps[2]).year
    /\ TimeOf(snaps[1]).month = 9 /\ TimeOf(snaps[2]).month = 10

\* C15: when the pruning of a filesystem was completed twice in a row with no
\* snapshot created on it in between, the second pruning issued no destroy
\* and the managed snapshots of the filesystem are those the first left.
C15_PruneIdempotent ==
    \A f \in FS :
        pruned[f].times = 2 =>
            /\ pruned[f].destroys = 0
            /\ ManagedIn(pruned[f].kept, f) = ManagedIn(pruned[f].before, f)

\* C15 happens: the source was pruned in the first session, the second
\* session failed to create its snapshot and pruned the source again.
C15_Witness ==
    /\ session = 2
    /\ Places({"snapshot"}) \cap failures # {}
    /\ pruned[SRC].times = 2
    /\ Cardinality(ManagedIn(pruned[SRC].kept, SRC)) = 2

\* C18: whenever main has chosen sendincremental(src, dst, tag_from, tag_to),
\* the inventory of the destination holds tag_from and the destination has
\* that snapshot.
C18_IncrementalBaseOnDestination ==
    (pc \in {"send_popen", "recv_popen"} /\ Transfer.fn = "sendincremental") =>
        /\ InList(Transfer.tags[1], dstsnaps)
        /\ Snap(DST, Transfer.tags[1]) \in pool

\* C19: once recv.communicate() has returned and the return codes were
\* tested, both children have exited.
C19_BothExitedBeforeInspection ==
    recv.returncode # <<>> =>
        send.state = "exited" /\ recv.state = "exited"

\* The parent is in recv.communicate() or has returned from it.
Waiting ==
    pc \in {"communicate", "prune_src", "list_dst_again", "prune_dst",
            "restore_dst", "restore_src"}

\* C20: the parent holds send.stdout from the start of zfs send until zfs
\* recv has been started and no longer once it waits; so once it waits and
\* the receiver has exited nothing can read the pipe, a sender blocked on a
\* write after the receiver has exited always ends, and a parent waiting for
\* a receiver that has exited always returns from the wait.
C20_CloseLetsSenderDie ==
    /\ [](pc \in {"recv_popen", "close"} => pipe)
    /\ [](pc = "close" => recv.state # "none")
    /\ [](Waiting => ~pipe)
    /\ []((Waiting /\ recv.state = "exited") => ~HasReader)
    /\ (send.state = "blocked" /\ recv.state = "exited") ~> (send.state = "exited")
    /\ (pc = "communicate" /\ recv.state = "exited") ~> (pc # "communicate")

\* C20 happens: the parent waits for a receiver that has exited with an
\* error while the sender is blocked on a write.
C20_Witness ==
    /\ pc = "communicate"
    /\ recv.state = "exited"
    /\ recv.exit # 0
    /\ send.state = "blocked"

\* The change of the list with a number.
ChangeOf(n) == p4.changes[n]

\* The Date of the change says it is at least seven days old.
OwnDateOld(n) ==
    /\ strptime(ChangeOf(n).Date) # <<>>
    /\ TimeLE(strptime(ChangeOf(n).Date)[1], week_ago)

\* The change was made in the last week: the day of its Date is later than
\* the day of week_ago.
MadeInLastWeek(n) ==
    LET day == strptime(SubSeq(ChangeOf(n).Date, 1, 10)
                            \o <<" ", "0", "0", ":", "0", "0", ":", "0", "0">>)
    IN  day # <<>> /\ ~TimeLE(day[1], week_ago)

\* C16: a change is deleted only with -y and, besides, with -a or when its
\* own Date is at least seven days old; without -a no change made in the
\* last week is deleted.
C16_DeletesOnlyOldOrAll ==
    \A d \in p4.deleted :
        /\ p4.delete
        /\ p4.all \/ OwnDateOld(d.Change)
        /\ ~p4.all => ~MadeInLastWeek(d.Change)

\* The name of the entry a path leads to.
EntryName(path) == path[Len(path)]

\* C17: when --exclude names are given, os.chmod is called on no entry whose
\* name is in the list, and no directory whose name is in the list is walked.
C17_ExcludedUntouched ==
    fx.pc # "none" =>
        /\ \A path \in fx.chmod : ~InList(EntryName(path), fx.exclude)
        /\ \A dirpath \in fx.visited \ {<<>>} :
              ~InList(EntryName(dirpath), fx.exclude)

\* The place of a command in the order of the mutating commands of a session;
\* 0 for the commands that change nothing, 7 for the sets of restoreauto().
Rank(c) ==
    CASE c.cmd = "set" /\ c.fn = "disableauto" /\ c.fs = SRC -> 1
      [] c.cmd = "set" /\ c.fn = "disableauto" /\ c.fs = DST -> 2
      [] c.cmd = "snapshot" -> 3
      [] c.cmd \in {"send", "recv"} -> 4
      [] c.cmd = "destroy" /\ c.fs = SRC -> 5
      [] c.cmd = "destroy" /\ c.fs = DST -> 6
      [] c.cmd = "set" /\ c.fn = "restoreauto" -> 7
      [] OTHER -> 0

\* The mutating commands were issued in the order of their ranks, and the
\* snapshot command once at most.
InSessionOrder ==
    /\ \A i, j \in 1..Len(log) :
          (i < j /\ Rank(log[i]) > 0 /\ Rank(log[j]) > 0) =>
              Rank(log[i]) <= Rank(log[j])
    /\ Cardinality(Places({"snapshot"})) <= 1

\* The two children of the transfer have ended.
TransferCompleted == send.state = "exited" /\ recv.state = "exited"

\* C21: within a session the mutating commands are issued in the order
\* disable source, disable destination, one snapshot, transfer, destroys on
\* the source, destroys on the destination; a transfer is started only after
\* the snapshot was created, and a destroy is issued only after the transfer
\* has completed.
C21_SessionOrder ==
    /\ InSessionOrder
    /\ Places({"send"}) # {} => Created # {}
    /\ Places({"destroy"}) # {} => TransferCompleted

\* The places in log of the commands of a function for a filesystem.
CallsOf(fn, f) == {i \in 1..Len(log) : log[i].fn = fn /\ log[i].fs = f}

\* C22: the guards are acquired source first and destination second, and
\* released in the reverse order: every command of disableauto for the
\* source comes before every one for the destination, and once restoreauto
\* has run for the source it has run for the destination before, both after
\* the commands of disableauto.
C22_ReleaseInReverse ==
    /\ \A i \in CallsOf("disableauto", SRC), j \in CallsOf("disableauto", DST) :
          i < j
    /\ \A i \in CallsOf("restoreauto", SRC) :
          \E j \in CallsOf("restoreauto", DST) : j < i
    /\ \A i \in CallsOf("restoreauto", SRC) \cup CallsOf("restoreauto", DST),
          j \in CallsOf("disableauto", SRC) \cup CallsOf("disableauto", DST) :
          j < i
    /\ \A f \in FS : Cardinality(CallsOf("restoreauto", f)) <= 1

\* C22 happens: the session has ended after both guards were acquired and
\* both were released, and the set command for the destination succeeded.
C22_Witness ==
    /\ pc = "exit"
    /\ \A f \in FS : Acquired(f) /\ RestoreCalled(f)
    /\ CallsOf("restoreauto", DST) \cap failures = {}

\* C23: when the set command of restoreauto for the destination has failed
\* (not launched, killed by a signal, or a non-zero exit), restoreauto is
\* still run for the source before the process exits.
C23_ReleasesIndependent ==
    (pc = "exit" /\ CallsOf("restoreauto", DST) \cap failures # {}) =>
        RestoreCalled(SRC)

\* The destroy commands that ran and returned a non-zero code.
FailedDestroys ==
    {i \in Places({"destroy"}) : outcome[i].launched /\ outcome[i].rc # 0}

\* C24: when a destroy-snapshot command has exited non-zero, the failure has
\* reached main: the process has exited with a non-zero status, and the
\* failed destroy is the last command of the session, so that no destroy
\* follows it on either filesystem.
C24_DestroyFailurePropagates ==
    \A i \in FailedDestroys :
        /\ pc = "exit"
        /\ status # 0
        /\ raised = <<CommandError("destroy", outcome[i].rc)>>
        /\ i = Len(log)

\* C24 happens: a destroy on the source has exited with an error status
\* while the destination holds more than two managed snapshots, which its
\* pruning would have destroyed.
C24_Witness ==
    \E i \in FailedDestroys :
        /\ log[i].fs = SRC
        /\ outcome[i].rc > 0
        /\ Cardinality(ManagedIn(pool, DST)) > 2

\* C25: in a session at most one zfs send and one zfs recv are started, the
\* recv after the send and both by the same function, sendsnapshot with one
\* tag or sendincremental with two; and a command that has failed is not
\* issued again.
C25_OneTransferNoRetry ==
    /\ Cardinality(Places({"send"})) <= 1
    /\ Cardinality(Places({"recv"})) <= 1
    /\ \A i \in Places({"recv"}) : \E j \in Places({"send"}) : j < i
    /\ \A i, j \in Places({"send", "recv"}) : log[i].fn = log[j].fn
    /\ \A i \in Places({"send"}) :
          \/ log[i].fn = "sendsnapshot" /\ Len(log[i].args) = 1
          \/ log[i].fn = "sendincremental" /\ Len(log[i].args) = 2
    /\ \A i \in failures : \A j \in 1..Len(log) : j > i => log[j] # log[i]

\* C25 happens: an incremental transfer was started, its sender and its
\* receiver ended with an error, and the session went on to its end.
C25_Witness ==
    /\ pc = "exit"
    /\ \E i \in Places({"send"}) \cap failures :
          /\ log[i].fn = "sendincremental"
          /\ i + 1 \in Places({"recv"}) \cap failures
          /\ Len(log) > i + 1

\* The session is between the snapshot command and its last destroy.
Replicating ==
    pc \in {"list_src", "list_dst", "send_popen", "recv_popen", "close",
            "communicate", "prune_src", "list_dst_again", "prune_dst"}

\* C26: from the snapshot command to the last destroy of the session the
\* auto-snapshot property is false on the source and on the destination, and
\* no child of a transfer runs while it has another value on either.
C26_DisabledWhileReplicating ==
    /\ Replicating => \A f \in FS : prop[f] = False
    /\ (send.state \in {"running", "blocked"} \/ recv.state = "running") =>
          \A f \in FS : prop[f] = False

\* The tag a send command transfers: the only one, or the second of two.
SentTag(i) == log[i].args[Len(log[i].args)]

\* C27: the tag a session transfers is the tag of the snapshot that
\* mksnapshot created in that session.
C27_TransfersOwnSnapshot ==
    \A i \in Places({"send"}) :
        \E j \in Created : j < i /\ SentTag(i) = log[j].args[1]

\* The greatest name of a non-empty set of names in tag order.
Newest(N) == CHOOSE n \in N : \A m \in N : ~StrLess(n, m)

\* C28: over the sessions, as long as the destination holds managed
\* snapshots the latest of them is on the source as well: no pruning of the
\* source destroys it, and it is there when the next session starts.
C28_NoSelfDivergence ==
    ManagedIn(pool, DST) # {} =>
        Newest(ManagedIn(pool, DST)) \in ManagedIn(pool, SRC)

\* C29: after a session that ends with exit status 0 the newest managed tag
\* of the destination is the newest managed tag of the source, and it is the
\* tag of the snapshot the session created.
C29_NewestTagsAgree ==
    (pc = "exit" /\ status = 0 /\ log # <<>>) =>
        /\ ManagedIn(pool, SRC) # {}
        /\ ManagedIn(pool, DST) # {}
        /\ Newest(ManagedIn(pool, DST)) = Newest(ManagedIn(pool, SRC))
        /\ \E i \in Created : log[i].args[1] = Newest(ManagedIn(pool, SRC))

\* C30: in a run of glacier.py after a run with the same label that was
\* ended by an error, no tarball is uploaded whose name the inventory of the
\* vault held when the run began.
C30_NoSecondUpload ==
    gl.pc # "none" => gl.uploaded \cap gl.found = {}

====
